---------------------------- MODULE Spec2Model ----------------------------
(***************************************************************************)
(* LexAI: the document upload / retrieval / deletion pipeline.             *)
(*                                                                         *)
(* The repository holds two FastAPI applications over one blob store       *)
(* adapter:                                                                *)
(*   "root"  - src/main.py  with src/models.py        (advocates, clients, *)
(*             cases, advocate_cases, documents; permission check)         *)
(*   "LexAI" - src/LexAI/main.py with src/LexAI/models.py  (users, cases,  *)
(*             files; soft delete)                                         *)
(* One of them is deployed; `app` says which.  Every handler is an action, *)
(* split at the calls to the blob store and at the commits, which are the  *)
(* points where another request can run.                                   *)
(*                                                                         *)
(* Identifier strings are modelled by integers: n >= 1 is the n-th value   *)
(* uuid.uuid4() returned, UnknownId a well-formed UUID that no row has,    *)
(* NotAUUID a string uuid.UUID() rejects.                                  *)
(***************************************************************************)
EXTENDS Integers, Sequences, FiniteSets, TLC

\* ------------------------------------------------------------- bounds
MaxRequests == 3
MaxSlots == 2
MaxUsers == 1
MaxAdvocates == 2
MaxClients == 1
MaxCases == 1

\* ------------------------------------------------ program constants
NotAUUID == -1
UnknownId == 0
MAX_FILE_SIZE == 10485760
SmallSize == 10

ALLOWED_EXTENSIONS == {".pdf", ".doc", ".docx", ".txt", ".jpg", ".jpeg", ".png"}
allowed_typesWithMemo ==
    {"petition", "evidence", "application", "miscellaneous", "memo"}

allowed_types == {"petition", "evidence", "application", "miscellaneous"}

Slots == 1..MaxSlots
Emails == {"a@x.com", "b@x.com"}
None == [none |-> TRUE]

VARIABLES
    app,            \* which application is deployed: "root" or "LexAI"
    blobs,          \* the bucket: key -> body, for the keys present
    users,          \* LexAI table users
    advocates,      \* root table advocates
    clients,        \* root table clients
    cases,          \* table cases (either application)
    advocate_cases, \* root association table
    documents,      \* root table documents
    files,          \* LexAI table files
    nextId,         \* the number of uuid4 values drawn so far, plus one
    started,        \* the number of upload/get/delete requests started
    req,            \* per slot, the request in it:
                    \*   op     the handler running, or "idle"
                    \*   pc     the handler's position
                    \*   arg    the request's inputs
                    \*   loc    the handler's local variables
                    \*   resp   the response, once pc = "done"
                    \*   calls  the database and blob-store calls made so far,
                    \*          each with whether it succeeded
    last,           \* the last registration / get_case request and its response
    deleted_ok      \* file ids for which delete_file has returned success

vars == <<app, blobs, users, advocates, clients, cases, advocate_cases,
          documents, files, nextId, started, req, last, deleted_ok>>

db == <<users, advocates, clients, cases, advocate_cases, documents, files>>

\* --------------------------------------------------------- helpers

\* uuid.UUID(s): raises ValueError unless s is a well-formed UUID.
IsUUID(s) == s # NotAUUID

Ids(table) == {r.id : r \in table}

NoArg == [adv |-> UnknownId, case |-> UnknownId, type |-> "", file |-> None,
          file_id |-> UnknownId]
NoLoc == [key |-> <<>>, row |-> None, url |-> None]
NoResp == [status |-> 0, detail |-> "", body |-> None]

Response(status, detail) == [status |-> status, detail |-> detail, body |-> None]
Success(body) == [status |-> 200, detail |-> "", body |-> body]

\* The strings a client can send as an id of a row of `table`: malformed,
\* well-formed but unknown, and the id of every row of the table.
IdInputs(table) == {NotAUUID, UnknownId} \cup Ids(table)

\* The files a client can send.
Bodies == {"v1"}
FileNames == {<<"brief", ".pdf">>}
Files == [filename : FileNames, size : {SmallSize}, body : Bodies]

\* The bucket with no object in it.
EmptyBucket == [k \in {} |-> 0]

\* ------------------------------------- blob store adapter (s3_utils)
\* `ok` is whether the S3 call succeeds; a failed call leaves the bucket alone.

\* upload_to_s3: the URL of the uploaded object, or None if the upload fails.
upload_to_s3(key, ok) == IF ok THEN [url |-> "s3", key |-> key] ELSE None

PutObjectLost(bucket, key, body, ok) == bucket

\* The bucket after upload_to_s3: a put overwrites the object under the key.
PutObject(bucket, key, body, ok) ==
    IF ok
    THEN [k \in DOMAIN bucket \cup {key} |-> IF k = key THEN body ELSE bucket[k]]
    ELSE bucket

\* delete_from_s3: True if successful, False otherwise.
delete_from_s3(key, ok) == ok

DeleteObjectAll(bucket, key, ok) == IF ok THEN EmptyBucket ELSE bucket

\* The bucket after delete_from_s3: deleting an absent key succeeds too.
DeleteObject(bucket, key, ok) ==
    IF ok THEN [k \in DOMAIN bucket \ {key} |-> bucket[k]] ELSE bucket

generate_presigned_urlOfNothing(key, ok) ==
    IF ok THEN [url |-> "presigned", key |-> <<>>] ELSE None

\* generate_presigned_url: the signed URL, or None on an exception.
generate_presigned_url(key, ok) ==
    IF ok THEN [url |-> "presigned", key |-> key] ELSE None

\* An empty slot.
Idle == [op |-> "idle", pc |-> "idle", arg |-> NoArg, loc |-> NoLoc,
         resp |-> NoResp, calls |-> <<>>]

\* The request in slot s moves on to position p.
Continue(s, p, l, c) ==
    req' = [req EXCEPT ![s].pc = p, ![s].loc = l, ![s].calls = c]

\* The request in slot s ends with response r.  Only the latest response is
\* kept: the slots of the requests answered before are emptied.
Finish(s, r, c) ==
    req' = [o \in Slots |->
              IF o = s THEN [req[s] EXCEPT !.pc = "done", !.resp = r, !.calls = c]
              ELSE IF req[o].pc = "done" THEN Idle
              ELSE req[o]]

\* A slot is free before its first request and after a response.
Free(s) == req[s].pc \in {"idle", "done"}

\* The slot the next request enters: the first free one.
FirstFree(s) == Free(s) /\ \A o \in Slots : o < s => ~Free(o)

\* A request for handler `name` with inputs a enters slot s and runs up to
\* position p; p = "done" ends it with response r.
Begin(s, name, a, p, l, r, c) ==
    /\ FirstFree(s)
    /\ started < MaxRequests
    /\ started' = started + 1
    /\ LET new == [op |-> name, pc |-> p, arg |-> a, loc |-> l, resp |-> r,
                   calls |-> c]
       IN req' = [o \in Slots |->
                    IF o = s THEN new
                    ELSE IF p = "done" /\ req[o].pc = "done" THEN Idle
                    ELSE req[o]]

\* The entry of `calls` for a database lookup.
Queried == <<"query", TRUE>>

\* The inputs of a registration or get_case request.
RegArg == [adv |-> UnknownId, client |-> UnknownId, case |-> UnknownId,
           email |-> ""]

\* A registration or get_case handler, called with a, returns r.  The response is kept in
\* `last` only in the specification that observes these responses.
Reply(observed, name, a, r) ==
    IF observed THEN last' = [op |-> name, arg |-> a, resp |-> r]
    ELSE UNCHANGED last

Init ==
    /\ app \in {"root", "LexAI"}
    /\ blobs = EmptyBucket
    /\ users = {} /\ advocates = {} /\ clients = {} /\ cases = {}
    /\ advocate_cases = {} /\ documents = {} /\ files = {}
    /\ nextId = 1
    /\ started = 0
    /\ req = [s \in Slots |-> Idle]
    /\ last = [op |-> "none", arg |-> RegArg, resp |-> NoResp]
    /\ deleted_ok = {}


\* ===================================================== src/LexAI/main.py

\* users.email is unique.
UsersConstraints(row) == \A u \in users : u.email # row.email

\* POST /register: the whole handler.
register_user_do(observed) ==
    /\ app = "LexAI"
    /\ \E email \in Emails, dbok \in BOOLEAN :
         LET user == [id |-> nextId, email |-> email] IN
         IF dbok /\ UsersConstraints(user)
         THEN /\ Cardinality(users) < MaxUsers
              /\ users' = users \cup {user}
              /\ nextId' = nextId + 1
              /\ Reply(observed, "register_user", [RegArg EXCEPT !.email = email],
                      Success([adv_id |-> user.id]))
         ELSE /\ Reply(observed, "register_user", [RegArg EXCEPT !.email = email],
                      Response(400, "User registration failed."))
              /\ UNCHANGED <<users, nextId>>
    /\ UNCHANGED <<app, blobs, advocates, clients, cases, advocate_cases,
                   documents, files, started, req, deleted_ok>>

\* POST /registercase: the whole handler.
lex_register_case_do(observed) ==
    /\ app = "LexAI"
    /\ \E adv_id \in IdInputs(users) :
         IF ~IsUUID(adv_id)
         THEN /\ Reply(observed, "register_case", [RegArg EXCEPT !.adv = adv_id],
                      Response(400, "Invalid adv_id provided."))
              /\ UNCHANGED <<cases, nextId>>
         ELSE \E dbok \in BOOLEAN :
         IF dbok
         THEN /\ Cardinality(cases) < MaxCases
              /\ cases' = cases \cup {[id |-> nextId, client_id |-> adv_id]}
              /\ nextId' = nextId + 1
              /\ Reply(observed, "register_case", [RegArg EXCEPT !.adv = adv_id],
                      Success([case_id |-> nextId]))
         ELSE /\ Reply(observed, "register_case", [RegArg EXCEPT !.adv = adv_id],
                      Response(400, "Case registration failed."))
              /\ UNCHANGED <<cases, nextId>>
    /\ UNCHANGED <<app, blobs, users, advocates, clients, advocate_cases,
                   documents, files, started, req, deleted_ok>>

\* The file_type strings a client can send.
FileTypeInputs == {"petition", "memo"}

FileKeySwapped(adv_id, case_id, file_type, filename) ==
    <<case_id, adv_id, file_type, filename>>

\* f"{adv_id}/{case_id}/{file_type}/{file.filename}"
FileKey(adv_id, case_id, file_type, filename) ==
    <<adv_id, case_id, file_type, filename>>

\* The same file name sent with different contents: the first upload request
\* sends v1, every later one v2.
OverwriteFiles ==
    [filename : FileNames, size : {SmallSize},
     body : {IF started = 0 THEN "v1" ELSE "v2"}]

\* upload_file up to the call of upload_to_s3: the file_type check and the key.
upload_file_from(s, sent) ==
    /\ app = "LexAI"
    /\ \E adv_id \in IdInputs(users), case_id \in IdInputs(cases),
          file_type \in FileTypeInputs, file \in sent :
         LET a == [NoArg EXCEPT !.adv = adv_id, !.case = case_id,
                                !.type = file_type, !.file = file]
         IN IF file_type \notin allowed_types
            THEN Begin(s, "upload_file", a, "done", NoLoc,
                       Response(400, "Invalid file_type"), <<>>)
            ELSE Begin(s, "upload_file", a, "put",
                       [NoLoc EXCEPT !.key =
                          FileKey(adv_id, case_id, file_type, file.filename)],
                       NoResp, <<>>)
    /\ UNCHANGED <<app, blobs, db, nextId, last, deleted_ok>>

upload_file_begin(s) == upload_file_from(s, Files)

UploadFailedIgnored(s3_url) == FALSE

\* What upload_file does with the value upload_to_s3 returned.
UploadFailed(s3_url) == s3_url = None

\* uuid.UUID(case_id), uuid.UUID(adv_id) while the record is built.
RecordIdsValid(a) == IsUUID(a.case) /\ IsUUID(a.adv)

\* upload_file from the call of upload_to_s3 to the built FileMetadata record.
upload_file_put(s) ==
    /\ req[s].op = "upload_file" /\ req[s].pc = "put"
    /\ \E ok \in BOOLEAN :
         LET key == req[s].loc.key
             s3_url == upload_to_s3(key, ok)
             made == Append(req[s].calls, <<"put", ok>>)
         IN /\ blobs' = PutObject(blobs, key, req[s].arg.file.body, ok)
            /\ IF UploadFailed(s3_url)
               THEN Finish(s, Response(500, "Upload failed"), made)
               ELSE IF ~RecordIdsValid(req[s].arg)
               THEN Finish(s, Response(400, "Invalid IDs provided"), made)
               ELSE Continue(s, "commit",
                         [req[s].loc EXCEPT !.url = s3_url,
                            !.row = [file_name |-> req[s].arg.file.filename,
                                     case_id |-> req[s].arg.case,
                                     lawyer_id |-> req[s].arg.adv,
                                     s3_key |-> key,
                                     s3_url |-> s3_url,
                                     file_size |-> req[s].arg.file.size,
                                     file_type |-> req[s].arg.type,
                                     is_deleted |-> FALSE]],
                         made)
    /\ UNCHANGED <<app, db, nextId, started, last, deleted_ok>>

FilesConstraintsNoUniqueKey(row) ==
    /\ row.case_id \in Ids(cases)
    /\ row.lawyer_id \in Ids(users)

\* files.s3_key is unique; files.case_id and files.lawyer_id are foreign keys.
FilesConstraints(row) ==
    /\ \A f \in files : f.s3_key # row.s3_key
    /\ row.case_id \in Ids(cases)
    /\ row.lawyer_id \in Ids(users)

\* upload_file: db.add, db.commit (not guarded: an exception is a 500), the response.
upload_file_commit(s) ==
    /\ req[s].op = "upload_file" /\ req[s].pc = "commit"
    /\ \E dbok \in BOOLEAN :
         LET file_record == [id |-> nextId] @@ req[s].loc.row
             committed == dbok /\ FilesConstraints(file_record)
             made == Append(req[s].calls, <<"commit", committed>>)
         IN IF committed
            THEN /\ files' = files \cup {file_record}
                 /\ nextId' = nextId + 1
                 /\ Finish(s, Success([file_id |-> file_record.id,
                                       s3_url |-> req[s].loc.url]), made)
            ELSE /\ Finish(s, Response(500, "Internal Server Error"), made)
                 /\ UNCHANGED <<files, nextId>>
    /\ UNCHANGED <<app, blobs, users, advocates, clients, cases, advocate_cases,
                   documents, started, last, deleted_ok>>

LookupFileIncludingDeleted(file_id) == {f \in files : f.id = file_id}

\* db.query(FileMetadata).filter(id == file_uuid, is_deleted == False).first()
LookupFile(file_id) == {f \in files : f.id = file_id /\ ~f.is_deleted}

\* get_file / delete_file up to the lookup: 400, 404 or the record found.
FileLookup(s, name, next) ==
    /\ app = "LexAI"
    /\ \E file_id \in IdInputs(files) :
         LET a == [NoArg EXCEPT !.file_id = file_id]
         IN IF ~IsUUID(file_id)
            THEN Begin(s, name, a, "done", NoLoc,
                       Response(400, "Invalid file_id format"), <<>>)
            ELSE IF LookupFile(file_id) = {}
            THEN Begin(s, name, a, "done", NoLoc,
                       Response(404, "File not found"), <<Queried>>)
            ELSE LET file_record == CHOOSE f \in LookupFile(file_id) : TRUE
                 IN Begin(s, name, a, next,
                          [NoLoc EXCEPT !.row = file_record,
                                        !.key = file_record.s3_key],
                          NoResp, <<Queried>>)
    /\ UNCHANGED <<app, blobs, db, nextId, last, deleted_ok>>

get_file_begin(s) == FileLookup(s, "get_file", "presign")

\* get_file: the presigned URL and the response.
get_file_presign(s) ==
    /\ req[s].op = "get_file" /\ req[s].pc = "presign"
    /\ \E ok \in BOOLEAN :
         LET file_record == req[s].loc.row
             presigned_url == generate_presigned_url(file_record.s3_key, ok)
             made == Append(req[s].calls, <<"presign", ok>>)
         IN IF presigned_url = None
            THEN Finish(s, Response(500, "Could not generate access URL"), made)
            ELSE Finish(s, Success([file_name |-> file_record.file_name,
                                    presigned_url |-> presigned_url,
                                    file_size |-> file_record.file_size,
                                    file_type |-> file_record.file_type]), made)
    /\ UNCHANGED <<app, blobs, db, nextId, started, last, deleted_ok>>

delete_file_begin(s) == FileLookup(s, "delete_file", "s3delete")

AfterDeleteIgnoringFailure(success) == "softdelete"

AfterDeleteWaiting(success) == "waiting"

\* What delete_file does after delete_from_s3 returned `success`.
AfterDelete(success) == IF success THEN "softdelete" ELSE "done"

\* delete_file: the blob delete.
delete_file_s3(s) ==
    /\ req[s].op = "delete_file" /\ req[s].pc = "s3delete"
    /\ \E ok \in BOOLEAN :
         LET key == req[s].loc.row.s3_key
             success == delete_from_s3(key, ok)
             made == Append(req[s].calls, <<"delete", ok>>)
         IN /\ blobs' = DeleteObject(blobs, key, ok)
            /\ IF AfterDelete(success) = "done"
               THEN Finish(s, Response(500, "Failed to delete file from storage"), made)
               ELSE Continue(s, AfterDelete(success), req[s].loc, made)
    /\ UNCHANGED <<app, db, nextId, started, last, deleted_ok>>

SoftDeleteRemoving(table, id) == {f \in table : f.id # id}

\* UPDATE files SET is_deleted = true WHERE id = file_record.id
SoftDelete(table, id) ==
    {IF f.id = id THEN [f EXCEPT !.is_deleted = TRUE] ELSE f : f \in table}

\* delete_file: file_record.is_deleted = True, db.commit (not guarded), the response.
delete_file_commit(s) ==
    /\ req[s].op = "delete_file" /\ req[s].pc = "softdelete"
    /\ \E dbok \in BOOLEAN :
         LET made == Append(req[s].calls, <<"commit", dbok>>) IN
         IF dbok
         THEN /\ files' = SoftDelete(files, req[s].loc.row.id)
              /\ deleted_ok' = deleted_ok \cup {req[s].loc.row.id}
              /\ Finish(s, Success([message |-> "File deleted successfully"]), made)
         ELSE /\ Finish(s, Response(500, "Internal Server Error"), made)
              /\ UNCHANGED <<files, deleted_ok>>
    /\ UNCHANGED <<app, blobs, users, advocates, clients, cases, advocate_cases,
                   documents, nextId, started, last>>

\* ============================================================ src/main.py

AdvocatesConstraintsNone(row) == TRUE

\* advocates.email is unique.
AdvocatesConstraints(row) == \A a \in advocates : a.email # row.email

\* POST /register/advocate: the whole handler.
register_advocate_do(observed) ==
    /\ app = "root"
    /\ \E email \in Emails, dbok \in BOOLEAN :
         LET advocate == [id |-> nextId, email |-> email] IN
         IF dbok /\ AdvocatesConstraints(advocate)
         THEN /\ Cardinality(advocates) < MaxAdvocates
              /\ advocates' = advocates \cup {advocate}
              /\ nextId' = nextId + 1
              /\ Reply(observed, "register_advocate", [RegArg EXCEPT !.email = email],
                      Success([advocate_id |-> advocate.id]))
         ELSE /\ Reply(observed, "register_advocate", [RegArg EXCEPT !.email = email],
                      Response(400, "IntegrityError"))
              /\ UNCHANGED <<advocates, nextId>>
    /\ UNCHANGED <<app, blobs, users, clients, cases, advocate_cases,
                   documents, files, started, req, deleted_ok>>

\* POST /register/client: the whole handler.
register_client_do(observed) ==
    /\ app = "root"
    /\ \E dbok \in BOOLEAN :
         IF dbok
         THEN /\ Cardinality(clients) < MaxClients
              /\ clients' = clients \cup {[id |-> nextId]}
              /\ nextId' = nextId + 1
              /\ Reply(observed, "register_client", RegArg,
                      Success([client_id |-> nextId]))
         ELSE /\ Reply(observed, "register_client", RegArg,
                      Response(400, "OperationalError"))
              /\ UNCHANGED <<clients, nextId>>
    /\ UNCHANGED <<app, blobs, users, advocates, cases, advocate_cases,
                   documents, files, started, req, deleted_ok>>

LookupAlwaysFinds(table, id) == table

\* db.query(Model).filter(Model.id == id).first()
Lookup(table, id) == {row \in table : row.id = id}

AssociateDropped(table, advocate_id, case_id) == table

\* new_case.advocate.append(advocate): the association row written with the case.
Associate(table, advocate_id, case_id) ==
    table \cup {[advocate_id |-> advocate_id, case_id |-> case_id]}

\* POST /register/case: the whole handler.  The
\* HTTPException(404) raised inside the try block is caught by `except
\* Exception` and raised again as a 400 carrying the 404's text.
register_case_do(observed) ==
    /\ app = "root"
    /\ \E advocate_id \in IdInputs(advocates), client_id \in IdInputs(clients) :
         IF ~IsUUID(advocate_id) \/ ~IsUUID(client_id)
         THEN /\ Reply(observed, "register_case",
                      [RegArg EXCEPT !.adv = advocate_id, !.client = client_id],
                      Response(400, "Invalid UUID format"))
              /\ UNCHANGED <<cases, advocate_cases, nextId>>
         ELSE IF Lookup(advocates, advocate_id) = {}
         THEN /\ Reply(observed, "register_case",
                      [RegArg EXCEPT !.adv = advocate_id, !.client = client_id],
                      Response(400, "404: Advocate not found"))
              /\ UNCHANGED <<cases, advocate_cases, nextId>>
         ELSE IF Lookup(clients, client_id) = {}
         THEN /\ Reply(observed, "register_case",
                      [RegArg EXCEPT !.adv = advocate_id, !.client = client_id],
                      Response(400, "404: Client not found"))
              /\ UNCHANGED <<cases, advocate_cases, nextId>>
         ELSE \E dbok \in BOOLEAN :
         IF dbok
         THEN /\ Cardinality(cases) < MaxCases
              /\ cases' = cases \cup {[id |-> nextId, client_id |-> client_id]}
              /\ advocate_cases' = Associate(advocate_cases, advocate_id, nextId)
              /\ nextId' = nextId + 1
              /\ Reply(observed, "register_case",
                      [RegArg EXCEPT !.adv = advocate_id, !.client = client_id],
                      Success([case_id |-> nextId]))
         ELSE /\ Reply(observed, "register_case",
                      [RegArg EXCEPT !.adv = advocate_id, !.client = client_id],
                      Response(400, "OperationalError"))
              /\ UNCHANGED <<cases, advocate_cases, nextId>>
    /\ UNCHANGED <<app, blobs, users, advocates, clients, documents, files,
                   started, req, deleted_ok>>

CaseAdvocatesAll(case_id) == Ids(advocates)

\* case.advocate: the advocates the association table links to the case.
CaseAdvocates(case_id) ==
    {ac.advocate_id : ac \in {x \in advocate_cases : x.case_id = case_id}}

HasPermissionAlways(advocate_id, case_id) == TRUE

\* advocate in case.advocate
HasPermission(advocate_id, case_id) == advocate_id \in CaseAdvocates(case_id)

\* GET /case/{case_id}: reads only.
get_case_do(observed) ==
    /\ app = "root"
    /\ \E case_id \in IdInputs(cases) :
         IF ~IsUUID(case_id)
         THEN Reply(observed, "get_case", [RegArg EXCEPT !.case = case_id],
                    Response(400, "Invalid case ID format"))
         ELSE IF Lookup(cases, case_id) = {}
         THEN Reply(observed, "get_case", [RegArg EXCEPT !.case = case_id],
                    Response(404, "Case not found"))
         ELSE Reply(observed, "get_case", [RegArg EXCEPT !.case = case_id],
                    Success([case_id |-> case_id]))
    /\ UNCHANGED <<app, blobs, db, nextId, started, req, deleted_ok>>

\* The files a client can send to upload_document.
DocFileNames == {<<"brief", ".pdf">>, <<"tool", ".exe">>}
DocFiles == [filename : DocFileNames, size : {SmallSize}, body : Bodies]
            \cup [filename : {<<"brief", ".pdf">>},
                  size : {MAX_FILE_SIZE + 1}, body : Bodies]

\* Files at the limits of validate_file: an upper-case extension on exactly
\* MAX_FILE_SIZE bytes, one byte more, and an extension that is not allowed.
BoundaryDocFiles ==
    {[filename |-> <<"scan", ".PDF">>, size |-> MAX_FILE_SIZE, body |-> "v1"],
     [filename |-> <<"brief", ".pdf">>, size |-> MAX_FILE_SIZE + 1, body |-> "v1"],
     [filename |-> <<"tool", ".exe">>, size |-> SmallSize, body |-> "v1"]}

\* Path(filename).suffix
Suffix(filename) == filename[2]

\* str.lower() on the extensions the inputs carry.
Lower(ext) == IF ext = ".PDF" THEN ".pdf" ELSE ext

validate_fileOffByOne(file) ==
    IF file.size >= MAX_FILE_SIZE THEN "File size exceeds maximum limit"
    ELSE IF Lower(Suffix(file.filename)) \notin ALLOWED_EXTENSIONS
    THEN "File type not allowed"
    ELSE ""

\* validate_file: the detail of the HTTPException(400) it raises, or "" if
\* it returns.  The chunk loop raises as soon as the running total exceeds
\* MAX_FILE_SIZE, which it does iff the file is longer than MAX_FILE_SIZE.
validate_file(file) ==
    IF file.size > MAX_FILE_SIZE THEN "File size exceeds maximum limit"
    ELSE IF Lower(Suffix(file.filename)) \notin ALLOWED_EXTENSIONS
    THEN "File type not allowed"
    ELSE ""

\* The doc_type strings a client can send.
DocTypeInputs == {"evidence"}

\* upload_document up to the file validation: UUID format, the rows, the
\* permission, the file.
upload_document_checksFileFirst(advocate_id, case_id, file) ==
    IF ~IsUUID(advocate_id) \/ ~IsUUID(case_id)
    THEN [resp |-> Response(400, "Invalid UUID format"), calls |-> <<>>]
    ELSE IF validate_file(file) # ""
    THEN [resp |-> Response(400, validate_file(file)), calls |-> <<>>]
    ELSE IF Lookup(advocates, advocate_id) = {}
    THEN [resp |-> Response(404, "Advocate not found"), calls |-> <<Queried>>]
    ELSE IF Lookup(cases, case_id) = {}
    THEN [resp |-> Response(404, "Case not found"), calls |-> <<Queried>>]
    ELSE IF ~HasPermission(advocate_id, case_id)
    THEN [resp |-> Response(403, "Advocate does not have permission for this case"),
          calls |-> <<Queried>>]
    ELSE [resp |-> NoResp, calls |-> <<Queried>>]

\* The checks of upload_document in the order the handler makes them: the
\* HTTPException of the first one that fails (NoResp if none does) and the
\* database calls made up to it.
upload_document_checks(advocate_id, case_id, file) ==
    IF ~IsUUID(advocate_id) \/ ~IsUUID(case_id)
    THEN [resp |-> Response(400, "Invalid UUID format"), calls |-> <<>>]
    ELSE IF Lookup(advocates, advocate_id) = {}
    THEN [resp |-> Response(404, "Advocate not found"), calls |-> <<Queried>>]
    ELSE IF Lookup(cases, case_id) = {}
    THEN [resp |-> Response(404, "Case not found"), calls |-> <<Queried>>]
    ELSE IF ~HasPermission(advocate_id, case_id)
    THEN [resp |-> Response(403, "Advocate does not have permission for this case"),
          calls |-> <<Queried>>]
    ELSE IF validate_file(file) # ""
    THEN [resp |-> Response(400, validate_file(file)), calls |-> <<Queried>>]
    ELSE [resp |-> NoResp, calls |-> <<Queried>>]

upload_document_from(s, sent) ==
    /\ app = "root"
    /\ \E advocate_id \in IdInputs(advocates), case_id \in IdInputs(cases),
          doc_type \in DocTypeInputs, file \in sent :
         LET a == [NoArg EXCEPT !.adv = advocate_id, !.case = case_id,
                                !.type = doc_type, !.file = file]
             checked == upload_document_checks(advocate_id, case_id, file)
         IN IF checked.resp # NoResp
            THEN Begin(s, "upload_document", a, "done", NoLoc, checked.resp,
                       checked.calls)
            ELSE Begin(s, "upload_document", a, "put", NoLoc, NoResp, checked.calls)
    /\ UNCHANGED <<app, blobs, db, nextId, last, deleted_ok>>

upload_document_begin(s) == upload_document_from(s, DocFiles)

\* sanitize_filename: f"{uuid.uuid4()}{ext}", ext = Path(filename).suffix
sanitize_filename(filename, uuid4) == <<uuid4, Suffix(filename)>>

\* The exception an awaited call raised.
Raised == [raised |-> TRUE]

\* The upload_to_s3 that src/main.py awaits (utils/s3_utils.py of the root
\* application): the URL of the object, or an exception.
await_upload_to_s3(key, ok) == IF ok THEN [url |-> "s3", key |-> key] ELSE Raised

\* upload_document: the generated name, the key, the put.
upload_document_put(s) ==
    /\ req[s].op = "upload_document" /\ req[s].pc = "put"
    /\ \E ok \in BOOLEAN :
         LET safe_filename == sanitize_filename(req[s].arg.file.filename, nextId)
             file_key == FileKey(req[s].arg.adv, req[s].arg.case, req[s].arg.type, safe_filename)
             s3_url == await_upload_to_s3(file_key, ok)
             made == Append(req[s].calls, <<"put", ok>>)
         IN /\ nextId' = nextId + 1
            /\ blobs' = PutObject(blobs, file_key, req[s].arg.file.body, ok)
            /\ IF s3_url = Raised
               THEN Finish(s, Response(500, "Failed to upload file to storage"), made)
               ELSE Continue(s, "commit",
                         [req[s].loc EXCEPT !.key = file_key, !.url = s3_url,
                            !.row = [doc_type |-> req[s].arg.type,
                                     file_name |-> safe_filename,
                                     file_path |-> s3_url,
                                     adv_id |-> req[s].arg.adv,
                                     case_id |-> req[s].arg.case]],
                         made)
    /\ UNCHANGED <<app, db, started, last, deleted_ok>>

\* documents.adv_id and documents.case_id are foreign keys.
DocumentsConstraints(row) ==
    /\ row.adv_id \in Ids(advocates)
    /\ row.case_id \in Ids(cases)

\* upload_document: db.add, db.commit (guarded: rollback and 400), the response.
upload_document_commit(s) ==
    /\ req[s].op = "upload_document" /\ req[s].pc = "commit"
    /\ \E dbok \in BOOLEAN :
         LET document == [id |-> nextId] @@ req[s].loc.row
             committed == dbok /\ DocumentsConstraints(document)
             made == Append(req[s].calls, <<"commit", committed>>)
         IN IF committed
            THEN /\ documents' = documents \cup {document}
                 /\ nextId' = nextId + 1
                 /\ Finish(s, Success([document_id |-> document.id,
                                       url |-> req[s].loc.url,
                                       file_name |-> document.file_name]), made)
            ELSE /\ Finish(s, Response(400, "Failed to save document record"), made)
                 /\ UNCHANGED <<documents, nextId>>
    /\ UNCHANGED <<app, blobs, users, advocates, clients, cases, advocate_cases,
                   files, started, last, deleted_ok>>

\* ---------------------------------------------------- the two systems

register_user == register_user_do(FALSE)
lex_register_case == lex_register_case_do(FALSE)
register_advocate == register_advocate_do(FALSE)
register_client == register_client_do(FALSE)
register_case == register_case_do(FALSE)
get_case == get_case_do(FALSE)

LexAINext ==
    \/ register_user
    \/ lex_register_case
    \/ \E s \in Slots : upload_file_begin(s)
    \/ \E s \in Slots : upload_file_put(s)
    \/ \E s \in Slots : upload_file_commit(s)
    \/ \E s \in Slots : get_file_begin(s)
    \/ \E s \in Slots : get_file_presign(s)
    \/ \E s \in Slots : delete_file_begin(s)
    \/ \E s \in Slots : delete_file_s3(s)
    \/ \E s \in Slots : delete_file_commit(s)

RootNext ==
    \/ register_advocate
    \/ register_client
    \/ register_case
    \/ get_case
    \/ \E s \in Slots : upload_document_begin(s)
    \/ \E s \in Slots : upload_document_put(s)
    \/ \E s \in Slots : upload_document_commit(s)

Next == LexAINext \/ RootNext

Spec == Init /\ [][Next]_vars

\* The registration and get_case handlers alone, their responses observed.
RegNext ==
    \/ register_user_do(TRUE)
    \/ lex_register_case_do(TRUE)
    \/ register_advocate_do(TRUE)
    \/ register_client_do(TRUE)
    \/ register_case_do(TRUE)
    \/ get_case_do(TRUE)

RegSpec == Init /\ [][RegNext]_vars

\* The root application, its uploads sending the boundary files too.
DocInit == Init /\ app = "root"

DocNext ==
    \/ register_advocate
    \/ register_client
    \/ register_case
    \/ \E s \in Slots : upload_document_from(s, BoundaryDocFiles)
    \/ \E s \in Slots : upload_document_put(s)
    \/ \E s \in Slots : upload_document_commit(s)

DocSpec == DocInit /\ [][DocNext]_vars

\* A handler that has started runs on: every call it awaits returns, so the
\* next step of a request in flight is eventually taken.
Advance(s) ==
    \/ upload_file_put(s) \/ upload_file_commit(s)
    \/ get_file_presign(s)
    \/ delete_file_s3(s) \/ delete_file_commit(s)
    \/ upload_document_put(s) \/ upload_document_commit(s)

CallsReturn == \A s \in Slots : WF_vars(Advance(s))

LiveSpec == Spec /\ CallsReturn

\* The LexAI application, its uploads sending two contents under one name.
BodyInit == Init /\ app = "LexAI"

BodyNext ==
    \/ register_user
    \/ lex_register_case
    \/ \E s \in Slots : upload_file_from(s, OverwriteFiles)
    \/ \E s \in Slots : upload_file_put(s)
    \/ \E s \in Slots : upload_file_commit(s)

BodySpec == BodyInit /\ [][BodyNext]_vars

\* =============================================================== claims

Range(seq) == {seq[i] : i \in 1..Len(seq)}
Uploads == {"upload_file", "upload_document"}
Done(s) == req[s].pc = "done"

\* A request entered slot s in this step.
BeganStep(s) == FirstFree(s) /\ started' = started + 1

\* C1: in every reachable state every files row with is_deleted = false has
\* its s3_key present in the blob store.
C1_NoOrphanedMetadata ==
    \A f \in files : ~f.is_deleted => f.s3_key \in DOMAIN blobs

\* C2: an upload whose commit failed after its put succeeded has issued a
\* delete of the blob before it returned its error.
C2_CommitFailureCompensated ==
    \A s \in Slots :
        (Done(s) /\ req[s].op \in Uploads) =>
            \A i \in 1..Len(req[s].calls) :
                req[s].calls[i] = <<"commit", FALSE>> =>
                    \E j \in (i + 1)..Len(req[s].calls) :
                        req[s].calls[j][1] = "delete"

\* The blob put of the upload in slot s fails in this step.
PutFailedStep(s) ==
    /\ req[s].op \in Uploads /\ req[s].pc = "put"
    /\ req'[s].calls = Append(req[s].calls, <<"put", FALSE>>)

\* C3: if the blob put of an upload fails, the upload ends there with
\* status 500 and no row of any table is created or changed.
C3_PutFailureCreatesNoRow ==
    [][\A s \in Slots :
          PutFailedStep(s) =>
              /\ req'[s].pc = "done"
              /\ req'[s].resp.status = 500
              /\ UNCHANGED db]_vars

C3_Witness ==
    \E s \in Slots :
        /\ Done(s) /\ req[s].op \in Uploads
        /\ req[s].resp.status = 500
        /\ <<"put", FALSE>> \in Range(req[s].calls)
        /\ files \cup documents # {}

\* C4: an upload_document whose advocate and case both exist but whose
\* advocate is not in the case's advocate_cases rows returns 403, puts no
\* blob and creates no document row.
C4_PermissionGate ==
    [][\A s \in Slots :
          (/\ BeganStep(s)
           /\ req'[s].op = "upload_document"
           /\ IsUUID(req'[s].arg.adv) /\ IsUUID(req'[s].arg.case)
           /\ req'[s].arg.adv \in Ids(advocates)
           /\ req'[s].arg.case \in Ids(cases)
           /\ [advocate_id |-> req'[s].arg.adv, case_id |-> req'[s].arg.case]
                  \notin advocate_cases)
          => /\ req'[s].pc = "done"
             /\ req'[s].resp.status = 403
             /\ \A c \in Range(req'[s].calls) : c[1] # "put"
             /\ blobs' = blobs
             /\ documents' = documents]_vars

C4_Witness ==
    \E s \in Slots :
        /\ Done(s) /\ req[s].op = "upload_document"
        /\ req[s].resp.status = 403
        /\ req[s].arg.adv \in Ids(advocates)
        /\ req[s].arg.case \in Ids(cases)

\* C5: no two metadata rows share a storage key.
C5_StorageKeysUnique ==
    /\ \A f, g \in files : f.s3_key = g.s3_key => f = g
    /\ \A d, e \in documents : d.file_path = e.file_path => d = e

\* An upload onto the key of a soft-deleted record has been tried.
C5_Witness ==
    \E s \in Slots :
        /\ Done(s) /\ req[s].op = "upload_file"
        /\ <<"put", TRUE>> \in Range(req[s].calls)
        /\ \E f \in files : f.s3_key = req[s].loc.key /\ f.is_deleted

\* The blob delete of the delete_file in slot s fails in this step.
DeleteFailedStep(s) ==
    /\ req[s].op = "delete_file" /\ req[s].pc = "s3delete"
    /\ req'[s].calls = Append(req[s].calls, <<"delete", FALSE>>)

\* C6: if the blob delete inside delete_file fails, delete_file ends there
\* with status 500 and changes no files row; the targeted row is still not
\* deleted, unless another delete_file on it has returned success.
C6_DeleteFailureLeavesMetadata ==
    [][\A s \in Slots :
          DeleteFailedStep(s) =>
              /\ req'[s].pc = "done"
              /\ req'[s].resp.status = 500
              /\ files' = files
              /\ \A f \in files' :
                    (f.id = req[s].loc.row.id /\ f.id \notin deleted_ok')
                        => ~f.is_deleted]_vars

C6_Witness ==
    \E s \in Slots :
        /\ Done(s) /\ req[s].op = "delete_file"
        /\ req[s].resp.status = 500
        /\ <<"delete", FALSE>> \in Range(req[s].calls)
        /\ \E f \in files : f.id = req[s].arg.file_id /\ ~f.is_deleted

C8_DeletedBlobStaysAbsent ==
    \A f \in files : f.id \in deleted_ok => f.s3_key \notin DOMAIN blobs

\* The put of the request that is about to commit a row with this key has
\* returned success.
PutBeforeInsert(key) ==
    \E s \in Slots :
        /\ req[s].pc = "commit" /\ req'[s].pc = "done"
        /\ req[s].loc.key = key
        /\ <<"put", TRUE>> \in Range(req[s].calls)

\* C9: a metadata row is inserted only by a request whose blob put for the
\* row's key has returned success, and the blob is in the store when the row
\* appears.
C9_BlobBeforeMetadata ==
    [][/\ \A f \in files' :
             f.id \notin Ids(files) =>
                 (f.s3_key \in DOMAIN blobs /\ PutBeforeInsert(f.s3_key))
       /\ \A d \in documents' :
             d.id \notin Ids(documents) =>
                 (d.file_path.key \in DOMAIN blobs
                    /\ PutBeforeInsert(d.file_path.key))]_vars

C9_Witness ==
    \E s \in Slots :
        /\ Done(s) /\ req[s].op \in Uploads
        /\ req[s].resp.status = 200
        /\ files \cup documents # {}

\* The request in slot s carries an id that is not a well-formed UUID.
MalformedId(s) ==
    CASE req[s].op \in Uploads -> ~IsUUID(req[s].arg.adv) \/ ~IsUUID(req[s].arg.case)
      [] req[s].op \in {"get_file", "delete_file"} -> ~IsUUID(req[s].arg.file_id)
      [] OTHER -> FALSE

\* C10: a request with a malformed id is rejected with 400 before any
\* database lookup and before any blob-store call.
C10_MalformedIdRejectedFirst ==
    \A s \in Slots :
        (Done(s) /\ MalformedId(s)) =>
            (req[s].resp.status = 400 /\ req[s].calls = <<>>)

\* C11: an upload_document whose ids are well-formed but whose advocate id
\* or case id matches no row returns 404, puts no blob and creates no
\* document row.
C11_UnknownIdsNotFound ==
    [][\A s \in Slots :
          (/\ BeganStep(s)
           /\ req'[s].op = "upload_document"
           /\ IsUUID(req'[s].arg.adv) /\ IsUUID(req'[s].arg.case)
           /\ \/ req'[s].arg.adv \notin Ids(advocates)
              \/ req'[s].arg.case \notin Ids(cases))
          => /\ req'[s].pc = "done"
             /\ req'[s].resp.status = 404
             /\ \A c \in Range(req'[s].calls) : c[1] # "put"
             /\ blobs' = blobs
             /\ documents' = documents]_vars

C11_Witness ==
    \E s \in Slots :
        /\ Done(s) /\ req[s].op = "upload_document"
        /\ req[s].resp.status = 404
        /\ req[s].arg.adv \in Ids(advocates)
        /\ req[s].arg.case \notin Ids(cases)

\* C12: a register_case whose advocate id or client id is well-formed but
\* resolves to no row answers with status 404.
C12_RegisterCaseNotFound ==
    (/\ last.op = "register_case"
     /\ IsUUID(last.arg.adv) /\ IsUUID(last.arg.client)
     /\ app = "root" =>
            (last.arg.adv \notin Ids(advocates) \/ last.arg.client \notin Ids(clients))
     /\ app = "LexAI" => last.arg.adv \notin Ids(users))
    => last.resp.status = 404

\* Every case of the root application has its association row and an
\* existing client, and every association row its case and advocate.
C13_Linked ==
    app = "root" =>
        /\ \A c \in cases :
              /\ \E ac \in advocate_cases : ac.case_id = c.id
              /\ c.client_id \in Ids(clients)
        /\ \A ac \in advocate_cases :
              ac.case_id \in Ids(cases) /\ ac.advocate_id \in Ids(advocates)

\* A register_case of the root application that answers with an error has
\* written nothing; one that succeeds has written one case and its one
\* association row together.
C13_Step ==
    (app = "root" /\ last'.op = "register_case") =>
        IF last'.resp.status = 200
        THEN \E c \in cases' \ cases :
                /\ cases' = cases \cup {c}
                /\ advocate_cases' = advocate_cases \cup
                      {[advocate_id |-> last'.arg.adv, case_id |-> c.id]}
                /\ c.client_id = last'.arg.client
        ELSE UNCHANGED <<cases, advocate_cases>>

\* C13: register_case of src/main.py is atomic: in every state the case row,
\* its advocate_cases row and its client link are all present or all absent,
\* and a failed commit leaves none of them.
C13_RegisterCaseAtomic == []C13_Linked /\ [][C13_Step]_vars

C13_Witness ==
    /\ app = "root" /\ last.op = "register_case"
    /\ last.arg.adv \in Ids(advocates) /\ last.arg.client \in Ids(clients)
    /\ last.resp.status = 400
    /\ cases # {}

C14_UniqueEmails ==
    /\ \A a, b \in advocates : a.email = b.email => a = b
    /\ \A u, v \in users : u.email = v.email => u = v

C14_Step ==
    (/\ last'.op \in {"register_advocate", "register_user"}
     /\ last'.arg.email \in {r.email : r \in advocates \cup users})
    => /\ last'.resp.status = 400
       /\ UNCHANGED <<advocates, users>>

\* C14: registering an advocate or user with an email an existing row holds
\* fails with an error, adds no row and changes none; no two rows of the
\* table ever share an email.
C14_DuplicateEmailRejected == []C14_UniqueEmails /\ [][C14_Step]_vars

C14_Witness ==
    /\ last.op \in {"register_advocate", "register_user"}
    /\ last.arg.email \in {r.email : r \in advocates \cup users}
    /\ last.resp.status = 400

\* C15: two upload requests to an existing case that run at the same time
\* never hold the same blob key.
C15_DistinctKeys ==
    \A s, t \in Slots :
        (/\ s # t
         /\ req[s].arg.case \in Ids(cases) /\ req[t].arg.case \in Ids(cases)
         /\ req[s].op \in Uploads /\ req[t].op \in Uploads
         /\ req[s].loc.key # <<>> /\ req[t].loc.key # <<>>)
        => req[s].loc.key # req[t].loc.key

\* C16: when get_file calls generate_presigned_url, the record it signs for
\* is not soft-deleted.
C16_PresignOnlyLive ==
    [][\A s \in Slots :
          (req[s].op = "get_file" /\ req[s].pc = "presign" /\ req'[s].pc = "done")
          => \E f \in files : f.id = req[s].loc.row.id /\ ~f.is_deleted]_vars

\* The request passes every check upload_document makes before validate_file.
Admitted(a) ==
    /\ IsUUID(a.adv) /\ IsUUID(a.case)
    /\ a.adv \in Ids(advocates) /\ a.case \in Ids(cases)
    /\ [advocate_id |-> a.adv, case_id |-> a.case] \in advocate_cases

\* At most MAX_FILE_SIZE bytes and an allowed extension, case ignored.
FileAccepted(file) ==
    /\ file.size <= MAX_FILE_SIZE
    /\ Lower(Suffix(file.filename)) \in ALLOWED_EXTENSIONS

\* C17: upload_document puts a blob only for a file of at most MAX_FILE_SIZE
\* bytes with an allowed extension (case ignored): such a file is accepted,
\* exactly MAX_FILE_SIZE bytes included, and any other file is rejected with
\* 400 before any put and without a row.
C17_ValidationGate ==
    [][\A s \in Slots :
          /\ (BeganStep(s) /\ req'[s].op = "upload_document" /\ Admitted(req'[s].arg))
             => IF FileAccepted(req'[s].arg.file)
                THEN req'[s].pc = "put"
                ELSE /\ req'[s].pc = "done"
                     /\ req'[s].resp.status = 400
                     /\ \A c \in Range(req'[s].calls) : c[1] # "put"
                     /\ blobs' = blobs
                     /\ documents' = documents
          /\ (req[s].op = "upload_document" /\ req[s].pc = "put"
                 /\ req'[s].calls # req[s].calls)
             => FileAccepted(req[s].arg.file)]_vars

C17_Witness ==
    \E s \in Slots :
        /\ req[s].op = "upload_document"
        /\ req[s].arg.file.size = MAX_FILE_SIZE
        /\ <<"put", TRUE>> \in Range(req[s].calls)

\* C18: the extension at the end of an upload's storage key is the
\* lower-cased extension of the client's filename.
C18_LowerCasedExtension ==
    \A s \in Slots :
        (req[s].op \in Uploads /\ req[s].loc.key # <<>>)
        => req[s].loc.key[4][2] = Lower(Suffix(req[s].arg.file.filename))

\* C19: an upload_document whose put and commit succeeded returns 200 with
\* the new document's id, the storage URL and the generated file name; it
\* adds exactly one document row, stored under the key
\* advocate_id/case_id/doc_type/generated name of the request's own inputs.
C19_SuccessfulUpload ==
    [][\A s \in Slots :
          (/\ req[s].op = "upload_document" /\ req[s].pc = "commit"
           /\ req'[s].calls = Append(req[s].calls, <<"commit", TRUE>>))
          => \E d \in documents' \ documents :
                /\ documents' = documents \cup {d}
                /\ req'[s].pc = "done"
                /\ req'[s].resp.status = 200
                /\ req'[s].resp.body.document_id = d.id
                /\ req'[s].resp.body.url = d.file_path
                /\ req'[s].resp.body.file_name = d.file_name
                /\ d.adv_id = req[s].arg.adv /\ d.case_id = req[s].arg.case
                /\ d.doc_type = req[s].arg.type
                /\ d.file_path.key =
                      <<req[s].arg.adv, req[s].arg.case, req[s].arg.type, d.file_name>>
                /\ d.file_path.key \in DOMAIN blobs]_vars

C19_Witness ==
    \E s \in Slots :
        /\ Done(s) /\ req[s].op = "upload_document"
        /\ req[s].resp.status = 200
        /\ \E d \in documents : d.id = req[s].resp.body.document_id

\* Two get_file requests on one file id sign for the same key.
C20_SameKey ==
    \A s, t \in Slots :
        (/\ req[s].op = "get_file" /\ req[t].op = "get_file"
         /\ req[s].arg.file_id = req[t].arg.file_id
         /\ req[s].loc.key # <<>> /\ req[t].loc.key # <<>>)
        => req[s].loc.key = req[t].loc.key

\* get_file changes neither the database nor the bucket; on a file id whose
\* record is not deleted it goes on to sign the record's s3_key, and the URL
\* it returns is for that key.
C20_Step ==
    \A s \in Slots :
        /\ (BeganStep(s) /\ req'[s].op = "get_file")
           => /\ UNCHANGED <<db, blobs>>
              /\ \A f \in files :
                    (f.id = req'[s].arg.file_id /\ ~f.is_deleted)
                    => (req'[s].pc = "presign" /\ req'[s].loc.key = f.s3_key)
        /\ (req[s].op = "get_file" /\ req[s].pc = "presign" /\ req'[s].pc = "done")
           => /\ UNCHANGED <<db, blobs>>
              /\ req'[s].calls = Append(req[s].calls, <<"presign", TRUE>>)
                    => /\ req'[s].resp.status = 200
                       /\ req'[s].resp.body.presigned_url.key = req[s].loc.key

C21_FileTypeGate ==
    [][\A s \in Slots :
          (/\ BeganStep(s)
           /\ req'[s].op = "upload_file"
           /\ req'[s].arg.type \notin
                 {"petition", "evidence", "application", "miscellaneous"})
          => /\ req'[s].pc = "done"
             /\ req'[s].resp.status = 400
             /\ req'[s].calls = <<>>
             /\ UNCHANGED <<db, blobs>>]_vars

C21_Witness ==
    \E s \in Slots :
        /\ Done(s) /\ req[s].op = "upload_file"
        /\ req[s].arg.type = "memo"
        /\ req[s].resp.status = 400
        /\ req[s].calls = <<>>

\* C22: a files row is never removed, none of its fields but is_deleted ever
\* changes, and is_deleted never goes back from true to false.
C22_RowsOnlySoftDeleted ==
    [][\A f \in files :
          \E g \in files' :
             /\ g.id = f.id
             /\ g = [f EXCEPT !.is_deleted = g.is_deleted]
             /\ f.is_deleted => g.is_deleted]_vars

C22_Witness ==
    \E f \in files :
        /\ f.is_deleted /\ f.id \in deleted_ok
        /\ f.s3_key \notin DOMAIN blobs

\* The status and the possible details of the first check of upload_document
\* that the inputs a fail; status 0 if they pass all of them.
C23_FirstFailure(a) ==
    IF ~IsUUID(a.adv) \/ ~IsUUID(a.case)
    THEN [status |-> 400, details |-> {"Invalid UUID format"}]
    ELSE IF a.adv \notin Ids(advocates)
    THEN [status |-> 404, details |-> {"Advocate not found"}]
    ELSE IF a.case \notin Ids(cases)
    THEN [status |-> 404, details |-> {"Case not found"}]
    ELSE IF [advocate_id |-> a.adv, case_id |-> a.case] \notin advocate_cases
    THEN [status |-> 403,
          details |-> {"Advocate does not have permission for this case"}]
    ELSE IF a.file.size > MAX_FILE_SIZE
               \/ Lower(Suffix(a.file.filename)) \notin ALLOWED_EXTENSIONS
    THEN [status |-> 400,
          details |-> {"File size exceeds maximum limit", "File type not allowed"}]
    ELSE [status |-> 0, details |-> {}]

\* The calls of an upload_document are its lookups, then its put, then its
\* commit, each made only after the one before succeeded.
C23_CallOrder ==
    \A s \in Slots :
        req[s].op = "upload_document" =>
            /\ \A i \in 1..Len(req[s].calls) :
                  /\ i <= 3
                  /\ req[s].calls[i][1] = <<"query", "put", "commit">>[i]
                  /\ i < Len(req[s].calls) => req[s].calls[i][2]
            /\ req[s].pc = "put" => Len(req[s].calls) = 1
            /\ req[s].pc = "commit" => Len(req[s].calls) = 2

C23_Step ==
    \A s \in Slots :
        (BeganStep(s) /\ req'[s].op = "upload_document") =>
            LET first == C23_FirstFailure(req'[s].arg)
            IN IF first.status = 0
               THEN req'[s].pc = "put"
               ELSE /\ req'[s].pc = "done"
                    /\ req'[s].resp.status = first.status
                    /\ req'[s].resp.detail \in first.details

\* C23: upload_document checks UUID format, advocate, case, association and
\* file in this order, then puts, then commits, and answers with the first
\* check that fails.
C23_CheckOrder == []C23_CallOrder /\ [][C23_Step]_vars

C23_Witness ==
    \E s \in Slots :
        /\ Done(s) /\ req[s].op = "upload_document"
        /\ req[s].resp.status = 403
        /\ req[s].arg.file.size > MAX_FILE_SIZE

\* The slot holds a request that has started and not yet answered.
InFlight(s) == req[s].pc \notin {"idle", "done"}

\* C24: every upload, get and delete request that has started eventually
\* answers, provided the calls it awaits return; and a request that has
\* answered takes no further step.
C24_Terminates ==
    /\ \A s \in Slots : InFlight(s) ~> ~InFlight(s)
    /\ [][\A s \in Slots :
             Done(s) => (req'[s] = req[s] \/ req'[s] = Idle \/ BeganStep(s))]_vars

C24_Witness ==
    \E s \in Slots :
        /\ Done(s) /\ req[s].op = "delete_file"
        /\ Len(req[s].calls) = 3
        /\ \A o \in Slots : ~InFlight(o)

\* C25: a delete_file returns success only for a file id for which no
\* delete_file has returned success before.
C25_SingleSuccess ==
    [][\A s \in Slots :
          (/\ req[s].op = "delete_file" /\ req[s].pc = "softdelete"
           /\ req'[s].pc = "done" /\ req'[s].resp.status = 200)
          => req[s].arg.file_id \notin deleted_ok]_vars

\* C26: every document row references an existing advocate and an existing
\* case, and advocate_cases links that advocate to that case.
C26_DocumentsReferenceAssociation ==
    \A d \in documents :
        /\ d.adv_id \in Ids(advocates)
        /\ d.case_id \in Ids(cases)
        /\ [advocate_id |-> d.adv_id, case_id |-> d.case_id] \in advocate_cases

C26_Witness ==
    /\ documents # {}
    /\ \E a \in advocates, c \in cases :
          [advocate_id |-> a.id, case_id |-> c.id] \notin advocate_cases

C28_CommittedBytesKept ==
    [][\A s \in Slots :
          (req[s].op = "upload_file" /\ req[s].pc = "put" /\ req'[s].pc # "put")
          => \A f \in files :
                (~f.is_deleted /\ f.s3_key \in DOMAIN blobs)
                => /\ f.s3_key \in DOMAIN blobs'
                   /\ blobs'[f.s3_key] = blobs[f.s3_key]]_vars

=============================================================================
